---- MODULE Spec2Model ----
(***************************************************************************)
(* Model of server/app_local.py: the /recommend request handler, the       *)
(* extraction of a JSON recommendation and an explanation from the         *)
(* language model's reply (query_groq), the speech step (generate_audio)   *)
(* and the insert into the responses table (store_response_in_db).         *)
(*                                                                         *)
(* A Python str is a sequence of one-character strings.  Python's None is  *)
(* the value Null, which is no such sequence.                              *)
(***************************************************************************)
EXTENDS Integers, Sequences, FiniteSets, TLC

Null == <<"null">>

\* A key a dict does not hold.
Absent == <<"absent">>

Min(S) == CHOOSE x \in S : \A y \in S : x <= y
Max(S) == 0 - Min({0 - x : x \in S})

(***************************************************************************)
(* Python str operations, with Python's 0-based indices.                   *)
(***************************************************************************)

\* The characters str.strip() removes, among those the model uses.
PyWhitespace == {" ", "\n", "\t", "\r"}

\* s[a:b] for 0 <= a, 0 <= b
Slice(s, a, b) == SubSeq(s, a + 1, IF b > Len(s) THEN Len(s) ELSE b)

\* s[a:]
SliceFrom(s, a) == SubSeq(s, a + 1, Len(s))

\* does pat occur in s at 0-based index i
OccursAt(s, pat, i) ==
    /\ i >= 0
    /\ i + Len(pat) <= Len(s)
    /\ \A k \in 1..Len(pat) : s[i + k] = pat[k]

\* s.find(pat, from): the lowest index >= from of an occurrence, or -1
FindFrom(s, pat, from) ==
    LET hits == {i \in from..(Len(s) - Len(pat)) : OccursAt(s, pat, i)}
    IN  IF hits = {} THEN -1 ELSE Min(hits)

\* s.find(pat)
Find(s, pat) == FindFrom(s, pat, 0)

\* s.rfind(pat)
RFind(s, pat) ==
    LET hits == {i \in 0..(Len(s) - Len(pat)) : OccursAt(s, pat, i)}
    IN  IF hits = {} THEN -1 ELSE Max(hits)

\* pat in s
Contains(s, pat) == Find(s, pat) >= 0

\* s.split(pat): the pieces between the non-overlapping occurrences of pat,
\* taken left to right
RECURSIVE Split(_, _)
Split(s, pat) ==
    LET i == Find(s, pat)
    IN  IF i < 0 THEN <<s>>
        ELSE <<Slice(s, 0, i)>> \o Split(SliceFrom(s, i + Len(pat)), pat)

\* s.strip()
Strip(s) ==
    LET keep == {i \in 1..Len(s) : s[i] \notin PyWhitespace}
    IN  IF keep = {} THEN <<>> ELSE SubSeq(s, Min(keep), Max(keep))

\* s.replace(old, new) for a one-character old
Replace(s, old, new) == [i \in 1..Len(s) |-> IF s[i] = old THEN new ELSE s[i]]

(***************************************************************************)
(* json.loads, on the characters the replies of this model are made of:    *)
(* objects, arrays, strings and numbers.  The replies                      *)
(* hold no comma, backslash, sign, zero or letter of a JSON literal, so an *)
(* object or array has at most one member and a string has no escape.  The *)
(* parsed value is written in canonical form: the document without its     *)
(* insignificant whitespace.                                               *)
(***************************************************************************)

JsonWhitespace == {" ", "\n", "\t", "\r"}
JsonDigits == {"1", "2", "3", "4", "5", "6", "7", "8", "9"}
JsonControl == {"\n", "\t", "\r"}

JsonFail == [ok |-> FALSE, next |-> 0, val |-> <<>>]

\* the first position >= i that holds no whitespace (Len(s) + 1 at the end)
SkipWs(s, i) == Min({j \in i..(Len(s) + 1) : j = Len(s) + 1 \/ s[j] \notin JsonWhitespace})

\* a string literal opening at position i
ParseString(s, i) ==
    LET close == {j \in (i + 1)..Len(s) : s[j] = "\""}
    IN  IF close = {} THEN JsonFail
        ELSE LET j == Min(close)
             IN  IF \E k \in (i + 1)..(j - 1) : s[k] \in JsonControl
                 THEN JsonFail
                 ELSE [ok |-> TRUE, next |-> j + 1, val |-> SubSeq(s, i, j)]

\* a number opening at position i: the longest run of digits
ParseNumber(s, i) ==
    LET end == Min({j \in i..(Len(s) + 1) : j = Len(s) + 1 \/ s[j] \notin JsonDigits})
    IN  [ok |-> TRUE, next |-> end, val |-> SubSeq(s, i, end - 1)]

\* a value opening at position i (no whitespace before it)
RECURSIVE ParseValue(_, _)
ParseValue(s, i) ==
    IF i > Len(s) THEN JsonFail
    ELSE IF s[i] = "\"" THEN ParseString(s, i)
    ELSE IF s[i] \in JsonDigits THEN ParseNumber(s, i)
    ELSE IF s[i] = "[" THEN
        LET j == SkipWs(s, i + 1)
        IN  IF j <= Len(s) /\ s[j] = "]"
            THEN [ok |-> TRUE, next |-> j + 1, val |-> <<"[", "]">>]
            ELSE LET e == ParseValue(s, j)
                     k == SkipWs(s, e.next)
                 IN  IF e.ok /\ k <= Len(s) /\ s[k] = "]"
                     THEN [ok |-> TRUE, next |-> k + 1, val |-> <<"[">> \o e.val \o <<"]">>]
                     ELSE JsonFail
    ELSE IF s[i] = "{" THEN
        LET j == SkipWs(s, i + 1)
        IN  IF j <= Len(s) /\ s[j] = "}"
            THEN [ok |-> TRUE, next |-> j + 1, val |-> <<"{", "}">>]
            ELSE IF j <= Len(s) /\ s[j] = "\""
            THEN LET key == ParseString(s, j)
                     c == SkipWs(s, key.next)
                     v == ParseValue(s, SkipWs(s, c + 1))
                     k == SkipWs(s, v.next)
                 IN  IF key.ok /\ c <= Len(s) /\ s[c] = ":" /\ v.ok /\ k <= Len(s) /\ s[k] = "}"
                     THEN [ok |-> TRUE, next |-> k + 1,
                           val |-> <<"{">> \o key.val \o <<":">> \o v.val \o <<"}">>]
                     ELSE JsonFail
            ELSE JsonFail
    ELSE JsonFail

\* json.loads(s): ok is FALSE where Python raises json.JSONDecodeError
JsonLoads(s) ==
    LET r == ParseValue(s, SkipWs(s, 1))
    IN  IF r.ok /\ SkipWs(s, r.next) = Len(s) + 1
        THEN [ok |-> TRUE, val |-> r.val]
        ELSE [ok |-> FALSE, val |-> Null]

(***************************************************************************)
(* query_groq: the extraction of the recommendation and the explanation    *)
(* from the model's reply.                                                 *)
(***************************************************************************)

\* The backtick character (the TLA+ lexer takes no backtick inside a string).
Backtick == "backtick"

\* the marker of a fenced block, and the marker of one labeled json
Fence == <<Backtick, Backtick, Backtick>>
JsonFence == Fence \o <<"j", "s", "o", "n">>

ParseErrorText == "Failed to parse model response"

\* the dict query_groq returns on success
Recommendation(data, explanation) ==
    [is_error |-> FALSE, error |-> "", raw_response |-> Absent, status |-> 0,
     recommendation_data |-> data, explanation_text |-> explanation]

\* the failure tuple without its raw_response
ErrorResultNoRaw(text, raw) ==
    [is_error |-> TRUE, error |-> text, raw_response |-> Absent, status |-> 500,
     recommendation_data |-> Absent, explanation_text |-> Absent]

\* the (dict, status) tuple query_groq returns on failure
ErrorResult(text, raw) ==
    [is_error |-> TRUE, error |-> text, raw_response |-> raw, status |-> 500,
     recommendation_data |-> Absent, explanation_text |-> Absent]

\* json_start = model_response.find('{')
JsonStart(model_response) == Find(model_response, <<"{">>)

\* json_end without the + 1
JsonEndAtBrace(model_response) == RFind(model_response, <<"}">>)

\* json_end = model_response.rfind('}') + 1
JsonEnd(model_response) == RFind(model_response, <<"}">>) + 1

\* if json_start >= 0 and json_end > json_start
HasBraceSpan(model_response) ==
    JsonStart(model_response) >= 0 /\ JsonEnd(model_response) > JsonStart(model_response)

\* explanation_parts[2].strip() if len(explanation_parts) > 2 else ""
FenceExplanation(model_response) ==
    LET explanation_parts == Split(model_response, Fence)
    IN  IF Len(explanation_parts) > 2 THEN Strip(explanation_parts[3]) ELSE <<>>

\* the brace branch
BraceBranch(model_response) ==
    LET json_str == Slice(model_response, JsonStart(model_response), JsonEnd(model_response))
        parsed_json == JsonLoads(json_str)
        explanation_text == Strip(SliceFrom(model_response, JsonEnd(model_response)))
    IN  IF parsed_json.ok
        THEN Recommendation(parsed_json.val, explanation_text)
        ELSE ErrorResult(ParseErrorText, model_response)

\* the fence branch that takes the first block whatever the marker
FenceBranchFirstBlock(model_response, marker) ==
    LET json_str == Strip(Split(Split(model_response, Fence)[2], Fence)[1])
        parsed_json == JsonLoads(json_str)
    IN  IF parsed_json.ok
        THEN Recommendation(parsed_json.val, FenceExplanation(model_response))
        ELSE ErrorResult(ParseErrorText, model_response)

\* the branch of a fenced block opened by marker (JsonFence or Fence)
FenceBranch(model_response, marker) ==
    LET json_str == Strip(Split(Split(model_response, marker)[2], Fence)[1])
        parsed_json == JsonLoads(json_str)
    IN  IF parsed_json.ok
        THEN Recommendation(parsed_json.val, FenceExplanation(model_response))
        ELSE ErrorResult(ParseErrorText, model_response)

\* the try block that parses the reply
ParseModelResponse(model_response) ==
    IF HasBraceSpan(model_response) THEN BraceBranch(model_response)
    ELSE IF Contains(model_response, JsonFence) THEN FenceBranch(model_response, JsonFence)
    ELSE IF Contains(model_response, Fence) THEN FenceBranch(model_response, Fence)
    ELSE ErrorResult(ParseErrorText, model_response)

(***************************************************************************)
(* The replies of the language model: every concatenation of at most       *)
(* MaxFrags fragments, and some longer replies.                            *)
(***************************************************************************)

MaxFrags == 4

Fragments ==
    { <<"{">>, <<"}">>, Fence, JsonFence, <<"1">>, <<"x">>, <<" ", "\n">>,
      <<"\"", "k", "\"", ":">> }

RECURSIVE RepliesOf(_)
RepliesOf(n) ==
    IF n = 0 THEN {<<>>}
    ELSE LET shorter == RepliesOf(n - 1)
         IN  shorter \cup {r \o f : r \in shorter, f \in Fragments}

Blank == <<" ", "\n">>
Object == <<"{", "\"", "k", "\"", ":", "1", "}">>

\* Longer replies: a fenced block after a brace span that is no JSON, a
\* fenced object, a labeled block after an unlabeled one, an unlabeled block
\* after a labeled one, and blocks with a brace outside them.
LongReplies ==
    { <<"{", "x", "}">> \o Blank \o JsonFence \o Blank \o <<"1">> \o Blank \o Fence,
      <<"{", "x", "}">> \o Blank \o Fence \o <<"1">> \o Fence \o <<"x">>,
      JsonFence \o Blank \o Object \o Blank \o Fence \o Blank \o <<"x">>,
      <<"x">> \o Fence \o <<"x">> \o Fence \o Blank \o JsonFence \o <<"1">> \o Fence \o <<"y">>,
      JsonFence \o <<"1">> \o Fence \o <<"x">> \o Fence \o <<"2">> \o Fence \o <<"y">>,
      <<"}">> \o JsonFence \o <<"1">> \o Fence \o <<"x", "{">>,
      <<"}">> \o Fence \o <<"x">> \o Fence \o JsonFence \o <<"1">> \o Fence \o <<"{">> }

\* The replies of the requests that run concurrently: an object in braces
\* with an explanation, a labeled block with an explanation, and prose.
ConcurrentReplies ==
    { Object \o Blank \o <<"x">>,
      JsonFence \o <<"1">> \o Fence \o <<"y">>,
      <<"x">> }

Replies == RepliesOf(MaxFrags) \cup LongReplies \cup ConcurrentReplies

(***************************************************************************)
(* load_housing_data and the rest of query_groq.                           *)
(***************************************************************************)

\* load_housing_data, given whether the read of the houses table succeeds.
\* The except branch returns DUMMY_HOUSING_DATA, a name the module only
\* defines inside a comment: evaluating it raises NameError.
LoadHousingData(read_ok) ==
    IF read_ok
    THEN [raised |-> FALSE, data |-> "houses"]
    ELSE [raised |-> TRUE, data |-> "NameError"]

KeyErrorText == "API key configuration error"
CommunicationErrorText == "Error communicating with language model API"
UnexpectedErrorText == "Unexpected error"

\* What the outside world answers during one query_groq call: whether the
\* read of the houses table succeeds, how the POST to the model ends, and
\* the content of the reply.
QueryInputs(replies) ==
    {[read_ok |-> FALSE, post |-> "none", reply |-> Null]}
    \cup {[read_ok |-> TRUE, post |-> p, reply |-> Null] : p \in {"request_error", "bad_shape"}}
    \cup {[read_ok |-> TRUE, post |-> "ok", reply |-> m] : m \in replies}

\* query_groq: its return value, the outbound calls it made in order, and
\* the listings it put in the prompt
QueryGroq(key, in) ==
    IF ~key
    THEN [result |-> ErrorResult(KeyErrorText, Absent), made |-> <<>>, listings |-> "none"]
    ELSE LET housing_database == LoadHousingData(in.read_ok)
         IN  IF housing_database.raised
             THEN [result |-> ErrorResult(UnexpectedErrorText, Absent),
                   made |-> <<"storage_read">>, listings |-> "none"]
             ELSE IF in.post = "request_error"
             THEN [result |-> ErrorResult(CommunicationErrorText, Absent),
                   made |-> <<"storage_read", "groq">>, listings |-> housing_database.data]
             ELSE IF in.post = "bad_shape"
             THEN [result |-> ErrorResult(UnexpectedErrorText, Absent),
                   made |-> <<"storage_read", "groq">>, listings |-> housing_database.data]
             ELSE [result |-> ParseModelResponse(in.reply),
                   made |-> <<"storage_read", "groq">>, listings |-> housing_database.data]

(***************************************************************************)
(* generate_audio: the text it submits.                                    *)
(***************************************************************************)

AudioCharLimit == 5000

Ellipsis == <<".", ".", ".">>

\* clean_text cut from the limit on, not only beyond it
CleanTextFromLimit(text) ==
    LET clean_text == Strip(Replace(text, "\n", " "))
    IN  IF Len(clean_text) >= AudioCharLimit
        THEN SubSeq(clean_text, 1, AudioCharLimit) \o <<".", ".", ".">>
        ELSE clean_text

\* clean_text: newlines to spaces, stripped, cut at the limit
CleanText(text) ==
    LET clean_text == Strip(Replace(text, "\n", " "))
    IN  IF Len(clean_text) > AudioCharLimit
        THEN SubSeq(clean_text, 1, AudioCharLimit) \o Ellipsis
        ELSE clean_text

\* os.path.join("audio_files", f"audio_{timestamp}.mp3") for timestamp = int(time.time())
AudioPath(timestamp) == <<"audio_files/audio_", timestamp, ".mp3">>

\* the bytes the speech API answers call number r for text
SpeechContent(r, text) == <<"audio", r, text>>

\* base64.b64encode(content).decode('utf-8')
Base64(content) == <<"base64", content>>

\* generate_audio's return value None
NoAudio == [none |-> TRUE, audio_base64 |-> Null, audio_path |-> Null]

(***************************************************************************)
(* The server: its configuration, the clock, the audio directory, the      *)
(* responses table, and the /recommend requests in progress.               *)
(***************************************************************************)

NumRequests == 2
MaxClock == 1

Requests == 1..NumRequests
Timestamps == 0..MaxClock

VARIABLES
    GROQ_API_KEY,           \* whether the environment sets it
    ELEVENLABS_API_KEY,     \* whether the environment sets it
    clock,                  \* int(time.time())
    audio_files,            \* the content of each path of audio_files/
    responses,              \* the rows of the responses table, in insert order
    pc,                     \* where each request is in recommend_housing
    body,                   \* request.json of each request
    houses_read,            \* how the read of the houses table ended
    prompt_listings,        \* the listings sent to the model
    model_response,         \* the content of the model's reply
    recommendation_result,  \* what query_groq returned
    submitted_text,         \* the text sent to the speech API
    audio_outcome,          \* how the speech step ended
    audio_result,           \* what generate_audio returned
    response_data,          \* the row passed to the insert
    insert_outcome,         \* how the insert ended
    payload,                \* the JSON answered to the client
    status,                 \* the HTTP status answered
    calls                   \* the outbound calls of each request, in order

vars == <<GROQ_API_KEY, ELEVENLABS_API_KEY, clock, audio_files, responses, pc, body,
          houses_read, prompt_listings, model_response, recommendation_result,
          submitted_text, audio_outcome, audio_result, response_data, insert_outcome, payload,
          status, calls>>

NoFile == <<"nofile">>
NoResult == Recommendation(Absent, Absent)
NoRow == [user_query |-> Absent, recommendation_data |-> Absent,
          explanation_text |-> Absent, audio_path |-> Absent]
NoPayload == [is_error |-> FALSE, error |-> "", raw_response |-> Absent,
              text_response |-> Absent, explanation_text |-> Absent,
              audio_response |-> Absent, response_id |-> Absent]

\* jsonify({"error": text}) and jsonify of query_groq's error dict
ErrorPayload(text, raw) ==
    [is_error |-> TRUE, error |-> text, raw_response |-> raw,
     text_response |-> Absent, explanation_text |-> Absent,
     audio_response |-> Absent, response_id |-> Absent]

\* the response without the id of the stored row
ResponsePayloadNoId(data, explanation, audio, id) ==
    [is_error |-> FALSE, error |-> "", raw_response |-> Absent,
     text_response |-> data, explanation_text |-> explanation,
     audio_response |-> audio, response_id |-> Null]

\* jsonify(response)
ResponsePayload(data, explanation, audio, id) ==
    [is_error |-> FALSE, error |-> "", raw_response |-> Absent,
     text_response |-> data, explanation_text |-> explanation,
     audio_response |-> audio, response_id |-> id]

NoSentencesText == "No input sentences provided"
ServerErrorText == "Server error"

\* The JSON bodies of the requests: one that is no object, one without the
\* sentences key, one with an empty list, and one with two sentences.
NoBody == [is_object |-> FALSE, has_sentences |-> FALSE, sentences |-> <<>>]

RequestBodies ==
    { NoBody,
      [is_object |-> TRUE, has_sentences |-> FALSE, sentences |-> <<>>],
      [is_object |-> TRUE, has_sentences |-> TRUE, sentences |-> <<>>],
      [is_object |-> TRUE, has_sentences |-> TRUE,
       sentences |-> << <<"a">>, <<"b", "c">> >>] }

\* data.get('sentences', [])
Sentences(data) == IF data.has_sentences THEN data.sentences ELSE <<>>

\* " ".join(sentences)
RECURSIVE Join(_)
Join(sentences) ==
    IF sentences = <<>> THEN <<>>
    ELSE IF Len(sentences) = 1 THEN sentences[1]
    ELSE sentences[1] \o <<" ">> \o Join(Tail(sentences))

\* the id the responses table gives its n-th row
RowId(n) == <<"id", n>>

Idle ==
    /\ clock = 0
    /\ audio_files = [t \in Timestamps |-> NoFile]
    /\ responses = <<>>
    /\ pc = [r \in Requests |-> "idle"]
    /\ body = [r \in Requests |-> NoBody]
    /\ houses_read = [r \in Requests |-> "none"]
    /\ prompt_listings = [r \in Requests |-> "none"]
    /\ model_response = [r \in Requests |-> Null]
    /\ recommendation_result = [r \in Requests |-> NoResult]
    /\ submitted_text = [r \in Requests |-> Null]
    /\ audio_outcome = [r \in Requests |-> "none"]
    /\ audio_result = [r \in Requests |-> NoAudio]
    /\ response_data = [r \in Requests |-> NoRow]
    /\ insert_outcome = [r \in Requests |-> "none"]
    /\ payload = [r \in Requests |-> NoPayload]
    /\ status = [r \in Requests |-> 0]
    /\ calls = [r \in Requests |-> <<>>]

Init ==
    /\ GROQ_API_KEY \in BOOLEAN
    /\ ELEVENLABS_API_KEY \in BOOLEAN
    /\ Idle

\* the validation that reads data['sentences'], which raises KeyError when
\* the key is missing
ReceiveNoDefault(r) ==
    /\ pc[r] = "idle"
    /\ \E data \in RequestBodies :
        /\ body' = [body EXCEPT ![r] = data]
        /\ IF ~data.is_object \/ ~data.has_sentences
           THEN /\ pc' = [pc EXCEPT ![r] = "done"]
                /\ payload' = [payload EXCEPT ![r] = ErrorPayload("Server error", Absent)]
                /\ status' = [status EXCEPT ![r] = 500]
           ELSE IF data.sentences = <<>>
           THEN /\ pc' = [pc EXCEPT ![r] = "done"]
                /\ payload' = [payload EXCEPT ![r] =
                        ErrorPayload("No input sentences provided", Absent)]
                /\ status' = [status EXCEPT ![r] = 400]
           ELSE /\ pc' = [pc EXCEPT ![r] = "query"]
                /\ UNCHANGED <<payload, status>>
    /\ UNCHANGED <<GROQ_API_KEY, ELEVENLABS_API_KEY, clock, audio_files, responses,
                   houses_read, prompt_listings, model_response, recommendation_result,
                   submitted_text, audio_outcome, audio_result, response_data,
                   insert_outcome, calls>>

\* recommend_housing up to the call of query_groq: the body is validated
Receive(r) ==
    /\ pc[r] = "idle"
    /\ \E data \in RequestBodies :
        /\ body' = [body EXCEPT ![r] = data]
        /\ IF ~data.is_object
           THEN /\ pc' = [pc EXCEPT ![r] = "done"]
                /\ payload' = [payload EXCEPT ![r] = ErrorPayload(ServerErrorText, Absent)]
                /\ status' = [status EXCEPT ![r] = 500]
           ELSE IF Sentences(data) = <<>>
           THEN /\ pc' = [pc EXCEPT ![r] = "done"]
                /\ payload' = [payload EXCEPT ![r] = ErrorPayload(NoSentencesText, Absent)]
                /\ status' = [status EXCEPT ![r] = 400]
           ELSE /\ pc' = [pc EXCEPT ![r] = "query"]
                /\ UNCHANGED <<payload, status>>
    /\ UNCHANGED <<GROQ_API_KEY, ELEVENLABS_API_KEY, clock, audio_files, responses,
                   houses_read, prompt_listings, model_response, recommendation_result,
                   submitted_text, audio_outcome, audio_result, response_data, insert_outcome, calls>>

\* the check that takes only a result with a raw_response for an error
IsErrorResultWithRaw(result) == result.is_error /\ result.raw_response # Absent

\* isinstance(recommendation_result, tuple) and ... "error" in recommendation_result[0]
IsErrorResult(result) == result.is_error

\* recommend_housing: the call of query_groq and the check of its result
Query(r, replies) ==
    /\ pc[r] = "query"
    /\ \E in \in QueryInputs(replies) :
        LET out == QueryGroq(GROQ_API_KEY, in)
        IN  /\ recommendation_result' = [recommendation_result EXCEPT ![r] = out.result]
            /\ calls' = [calls EXCEPT ![r] = @ \o out.made]
            /\ prompt_listings' = [prompt_listings EXCEPT ![r] = out.listings]
            /\ houses_read' = [houses_read EXCEPT ![r] =
                    IF Len(out.made) = 0 THEN "none"
                    ELSE IF in.read_ok THEN "ok" ELSE "failed"]
            /\ model_response' = [model_response EXCEPT ![r] =
                    IF Len(out.made) = 2 /\ in.post = "ok" THEN in.reply ELSE Null]
            /\ IF IsErrorResult(out.result)
               THEN /\ pc' = [pc EXCEPT ![r] = "done"]
                    /\ payload' = [payload EXCEPT ![r] =
                            ErrorPayload(out.result.error, out.result.raw_response)]
                    /\ status' = [status EXCEPT ![r] = out.result.status]
               ELSE /\ pc' = [pc EXCEPT ![r] = "audio"]
                    /\ UNCHANGED <<payload, status>>
    /\ UNCHANGED <<GROQ_API_KEY, ELEVENLABS_API_KEY, clock, audio_files, responses, body,
                   submitted_text, audio_outcome, audio_result, response_data, insert_outcome>>

\* recommend_housing: the call of generate_audio.  The speech API answers or
\* fails, and the write of the audio file succeeds or fails.
GenerateAudio(r) ==
    /\ pc[r] = "audio"
    /\ pc' = [pc EXCEPT ![r] = "store"]
    /\ \E outcome \in {"ok", "request_error", "write_error"} :
        LET text == recommendation_result[r].explanation_text
            clean_text == CleanText(text)
            content == SpeechContent(r, clean_text)
            timestamp == clock
        IN  IF ~ELEVENLABS_API_KEY
            THEN /\ audio_result' = [audio_result EXCEPT ![r] = NoAudio]
                 /\ audio_outcome' = [audio_outcome EXCEPT ![r] = "no_key"]
                 /\ UNCHANGED <<submitted_text, calls, audio_files>>
            ELSE /\ submitted_text' = [submitted_text EXCEPT ![r] = clean_text]
                 /\ audio_outcome' = [audio_outcome EXCEPT ![r] = outcome]
                 /\ IF outcome = "request_error"
                    THEN /\ audio_result' = [audio_result EXCEPT ![r] = NoAudio]
                         /\ calls' = [calls EXCEPT ![r] = Append(@, "speech")]
                         /\ UNCHANGED audio_files
                    ELSE IF outcome = "write_error"
                    THEN /\ audio_result' = [audio_result EXCEPT ![r] = NoAudio]
                         /\ calls' = [calls EXCEPT ![r] = @ \o <<"speech", "file_write">>]
                         /\ UNCHANGED audio_files
                    ELSE /\ audio_files' = [audio_files EXCEPT ![timestamp] = content]
                         /\ calls' = [calls EXCEPT ![r] = @ \o <<"speech", "file_write">>]
                         /\ audio_result' = [audio_result EXCEPT ![r] =
                                [none |-> FALSE, audio_base64 |-> Base64(content),
                                 audio_path |-> AudioPath(timestamp)]]
    /\ UNCHANGED <<GROQ_API_KEY, ELEVENLABS_API_KEY, clock, responses, body, houses_read,
                   prompt_listings, model_response, recommendation_result, response_data,
                   insert_outcome, payload, status>>

\* recommend_housing: the call of store_response_in_db and the answer.  The
\* insert raises, returns no row, or returns the row with its id.
StoreResponse(r) ==
    /\ pc[r] = "store"
    /\ pc' = [pc EXCEPT ![r] = "done"]
    /\ \E outcome \in {"row", "no_row", "error"} :
        LET recommendation_data == recommendation_result[r].recommendation_data
            explanation_text == recommendation_result[r].explanation_text
            audio_path == IF audio_result[r].none THEN Null ELSE audio_result[r].audio_path
            row == [user_query |-> Join(Sentences(body[r])),
                    recommendation_data |-> recommendation_data,
                    explanation_text |-> explanation_text,
                    audio_path |-> audio_path]
            response_id == IF outcome = "row" THEN RowId(Len(responses) + 1) ELSE Null
        IN  /\ response_data' = [response_data EXCEPT ![r] = row]
            /\ insert_outcome' = [insert_outcome EXCEPT ![r] = outcome]
            /\ responses' = IF outcome = "error" THEN responses ELSE Append(responses, row)
            /\ calls' = [calls EXCEPT ![r] = Append(@, "storage_insert")]
            /\ payload' = [payload EXCEPT ![r] =
                    ResponsePayload(recommendation_data, explanation_text,
                        IF audio_result[r].none THEN Null ELSE audio_result[r].audio_base64,
                        response_id)]
            /\ status' = [status EXCEPT ![r] = 200]
    /\ UNCHANGED <<GROQ_API_KEY, ELEVENLABS_API_KEY, clock, audio_files, body, houses_read,
                   prompt_listings, model_response, recommendation_result, submitted_text,
                   audio_outcome, audio_result>>

\* a second passes
Tick ==
    /\ clock < MaxClock
    /\ clock' = clock + 1
    /\ UNCHANGED <<GROQ_API_KEY, ELEVENLABS_API_KEY, audio_files, responses, pc, body,
                   houses_read, prompt_listings, model_response, recommendation_result,
                   submitted_text, audio_outcome, audio_result, response_data, insert_outcome, payload,
                   status, calls>>

(***************************************************************************)
(* Spec: one request, whose model reply ranges over Replies.               *)
(***************************************************************************)

Next ==
    \/ Receive(1)
    \/ Query(1, Replies)
    \/ GenerateAudio(1)
    \/ StoreResponse(1)

Spec == Init /\ [][Next]_vars

(***************************************************************************)
(* SpecConcurrent: the host server runs NumRequests requests at once; they *)
(* interleave at their outbound calls, and seconds pass.                   *)
(***************************************************************************)

NextConcurrent ==
    \/ \E r \in Requests : Receive(r)
    \/ \E r \in Requests : Query(r, ConcurrentReplies)
    \/ \E r \in Requests : GenerateAudio(r)
    \/ \E r \in Requests : StoreResponse(r)
    \/ Tick

SpecConcurrent == Init /\ [][NextConcurrent]_vars

(***************************************************************************)
(* SpecAudio: the speech and storage steps of a request whose model reply  *)
(* is an empty object followed by an explanation about AudioCharLimit      *)
(* characters long.                                                        *)
(***************************************************************************)

LongMargin == 2

\* n characters of prose with a newline every 50
LongBody(n) ==
    [i \in 1..n |-> IF i % 50 = 0 THEN "\n" ELSE IF i % 2 = 0 THEN "a" ELSE "b"]

LongExplanations ==
    { lead \o LongBody(n) \o trail :
        lead \in {<<>>, <<" ">>, <<"\n", "x">>},
        n \in (AudioCharLimit - LongMargin)..(AudioCharLimit + LongMargin),
        trail \in {<<>>, <<"\n">>, <<"y">>} }

LongBodyRequest ==
    [is_object |-> TRUE, has_sentences |-> TRUE, sentences |-> << <<"a">>, <<"b", "c">> >>]

\* the state after Receive and Query of request 1, for the reply {} \o text
InitAudio ==
    /\ GROQ_API_KEY = TRUE
    /\ ELEVENLABS_API_KEY \in BOOLEAN
    /\ clock = 0
    /\ audio_files = [t \in Timestamps |-> NoFile]
    /\ responses = <<>>
    /\ \E text \in LongExplanations :
        LET reply == <<"{", "}">> \o text
            out == QueryGroq(TRUE, [read_ok |-> TRUE, post |-> "ok", reply |-> reply])
        IN  /\ model_response = [r \in Requests |-> IF r = 1 THEN reply ELSE Null]
            /\ recommendation_result = [r \in Requests |-> IF r = 1 THEN out.result ELSE NoResult]
            /\ calls = [r \in Requests |-> IF r = 1 THEN out.made ELSE <<>>]
            /\ prompt_listings = [r \in Requests |-> IF r = 1 THEN out.listings ELSE "none"]
    /\ pc = [r \in Requests |-> IF r = 1 THEN "audio" ELSE "idle"]
    /\ body = [r \in Requests |-> IF r = 1 THEN LongBodyRequest ELSE NoBody]
    /\ houses_read = [r \in Requests |-> IF r = 1 THEN "ok" ELSE "none"]
    /\ submitted_text = [r \in Requests |-> Null]
    /\ audio_outcome = [r \in Requests |-> "none"]
    /\ audio_result = [r \in Requests |-> NoAudio]
    /\ response_data = [r \in Requests |-> NoRow]
    /\ insert_outcome = [r \in Requests |-> "none"]
    /\ payload = [r \in Requests |-> NoPayload]
    /\ status = [r \in Requests |-> 0]

NextAudio ==
    \/ GenerateAudio(1)
    \/ StoreResponse(1)

SpecAudio == InitAudio /\ [][NextAudio]_vars

(***************************************************************************)
(* Properties.  The positions below are 1-based positions of the reply.    *)
(***************************************************************************)

\* request r has received the model's reply
Got(r) == model_response[r] # Null

\* some '{' stands before some '}'
BraceSpanExists(m) ==
    \E i \in 1..Len(m) : \E j \in 1..Len(m) : i < j /\ m[i] = "{" /\ m[j] = "}"

FirstPos(m, c) == Min({i \in 1..Len(m) : m[i] = c})
LastPos(m, c) == Max({i \in 1..Len(m) : m[i] = c})

\* the text from the first '{' to the last '}', and the text after it
BraceSpanText(m) == SubSeq(m, FirstPos(m, "{"), LastPos(m, "}"))
AfterBraceSpan(m) == SubSeq(m, LastPos(m, "}") + 1, Len(m))

\* pat occurs in m; the position of its first occurrence
HasOcc(m, pat) == \E i \in 1..(Len(m) - Len(pat) + 1) : SubSeq(m, i, i + Len(pat) - 1) = pat
FirstOcc(m, pat) ==
    Min({i \in 1..(Len(m) - Len(pat) + 1) : SubSeq(m, i, i + Len(pat) - 1) = pat})

\* the text from position start to the next fence marker (to the end if none)
InteriorFrom(m, start) ==
    LET rest == SubSeq(m, start, Len(m))
    IN  IF HasOcc(rest, Fence) THEN SubSeq(rest, 1, FirstOcc(rest, Fence) - 1) ELSE rest

\* the interior of the first block labeled json, and of the first block
LabeledInterior(m) == InteriorFrom(m, FirstOcc(m, JsonFence) + Len(JsonFence))
FirstInterior(m) == InteriorFrom(m, FirstOcc(m, Fence) + Len(Fence))

LabeledFenceYields(m) == HasOcc(m, JsonFence) /\ JsonLoads(Strip(LabeledInterior(m))).ok
AnyFenceYields(m) == HasOcc(m, Fence) /\ JsonLoads(Strip(FirstInterior(m))).ok

\* query_groq returned a recommendation with this data
Recommends(r, data) ==
    /\ ~recommendation_result[r].is_error
    /\ recommendation_result[r].recommendation_data = data

\* query_groq returned the parse failure carrying text
ReportsParseFailure(r, text) ==
    /\ recommendation_result[r].is_error
    /\ recommendation_result[r].error = "Failed to parse model response"
    /\ recommendation_result[r].status = 500
    /\ recommendation_result[r].raw_response = text

\* C1: when the text from the first '{' to the last '}' of the reply parses
\* as JSON, query_groq returns a recommendation whose recommendation_data is
\* the parse of that text and whose explanation_text is the stripped text
\* after the last '}'.
C1_BraceSpanExtracted ==
    \A r \in Requests :
        (Got(r) /\ BraceSpanExists(model_response[r])
                /\ JsonLoads(BraceSpanText(model_response[r])).ok)
        => /\ Recommends(r, JsonLoads(BraceSpanText(model_response[r])).val)
           /\ recommendation_result[r].explanation_text
                = Strip(AfterBraceSpan(model_response[r]))

\* a non-empty object was extracted, and the explanation lost whitespace
C1_Witness ==
    \E r \in Requests :
        /\ Got(r) /\ BraceSpanExists(model_response[r])
        /\ JsonLoads(BraceSpanText(model_response[r])).ok
        /\ ~recommendation_result[r].is_error
        /\ Len(recommendation_result[r].recommendation_data) > 2
        /\ recommendation_result[r].explanation_text # <<>>
        /\ Len(recommendation_result[r].explanation_text)
             < Len(AfterBraceSpan(model_response[r]))

\* C2: when the text from the first '{' to the last '}' exists and is no
\* JSON, query_groq falls back to the block labeled json, then to the first
\* fenced block, and reports a parse failure only if neither holds JSON.
C2_FallbackChain ==
    \A r \in Requests :
        (Got(r) /\ BraceSpanExists(model_response[r])
                /\ ~JsonLoads(BraceSpanText(model_response[r])).ok)
        => IF LabeledFenceYields(model_response[r])
           THEN Recommends(r, JsonLoads(Strip(LabeledInterior(model_response[r]))).val)
           ELSE IF AnyFenceYields(model_response[r])
           THEN Recommends(r, JsonLoads(Strip(FirstInterior(model_response[r]))).val)
           ELSE recommendation_result[r].is_error

\* the strategy the reply selects finds no JSON: the brace span if there is
\* one, else the block labeled json, else the first block, else nothing
NoStrategyYields(m) ==
    IF BraceSpanExists(m) THEN ~JsonLoads(BraceSpanText(m)).ok
    ELSE IF HasOcc(m, JsonFence) THEN ~JsonLoads(Strip(LabeledInterior(m))).ok
    ELSE IF HasOcc(m, Fence) THEN ~JsonLoads(Strip(FirstInterior(m))).ok
    ELSE TRUE

\* C3: when no strategy finds JSON in the reply, query_groq returns the
\* parse failure with status 500 and the reply as raw_response, and the
\* handler answers that payload with that status.
C3_ParseFailureVerbatim ==
    \A r \in Requests :
        (Got(r) /\ NoStrategyYields(model_response[r]))
        => /\ ReportsParseFailure(r, model_response[r])
           /\ pc[r] = "done"
           /\ status[r] = 500
           /\ payload[r].is_error
           /\ payload[r].error = "Failed to parse model response"
           /\ payload[r].raw_response = model_response[r]

\* a brace span that is no JSON, in a reply with whitespace at an end
C3_Witness ==
    \E r \in Requests :
        /\ Got(r) /\ NoStrategyYields(model_response[r])
        /\ BraceSpanExists(model_response[r])
        /\ Len(Strip(model_response[r])) < Len(model_response[r])
        /\ pc[r] = "done" /\ status[r] = 500

\* C4: when the reply has no '{' before a '}' and has a block labeled json
\* whose stripped interior is JSON, recommendation_data is the parse of that
\* interior.
C4_LabeledFenceExtracted ==
    \A r \in Requests :
        (Got(r) /\ ~BraceSpanExists(model_response[r])
                /\ LabeledFenceYields(model_response[r]))
        => Recommends(r, JsonLoads(Strip(LabeledInterior(model_response[r]))).val)

\* a labeled block whose interior has whitespace around the JSON
C4_Witness ==
    \E r \in Requests :
        /\ Got(r) /\ ~BraceSpanExists(model_response[r])
        /\ LabeledFenceYields(model_response[r])
        /\ Len(Strip(LabeledInterior(model_response[r])))
             < Len(LabeledInterior(model_response[r]))
        /\ ~recommendation_result[r].is_error

\* request r made none of the outbound calls and left no trace of one
NoOutboundCall(r) ==
    /\ calls[r] = <<>>
    /\ houses_read[r] = "none"
    /\ prompt_listings[r] = "none"
    /\ model_response[r] = Null
    /\ submitted_text[r] = Null
    /\ audio_outcome[r] = "none"
    /\ insert_outcome[r] = "none"

NoAudioFile == \A t \in Timestamps : audio_files[t] = NoFile

\* C5: a request whose JSON object has no sentences key, or an empty
\* sentences list, is answered 400 with an error payload, and makes no
\* storage read, model call, speech call, file write or insert.
C5_EmptyQueryRejected ==
    \A r \in Requests :
        (pc[r] # "idle" /\ body[r].is_object
            /\ (~body[r].has_sentences \/ body[r].sentences = <<>>))
        => /\ pc[r] = "done"
           /\ status[r] = 400
           /\ payload[r].is_error
           /\ NoOutboundCall(r)
           /\ responses = <<>>
           /\ NoAudioFile

\* the body has no sentences key and the request was answered
C5_Witness ==
    \E r \in Requests :
        /\ pc[r] = "done" /\ body[r].is_object /\ ~body[r].has_sentences
        /\ status[r] = 400 /\ payload[r].error = "No input sentences provided"

\* C6: when the read of the houses table fails, load_housing_data returns
\* the fallback listings and query_groq calls the model with them.
C6_FallbackListings ==
    \A r \in Requests :
        houses_read[r] = "failed"
        => /\ prompt_listings[r] = "DUMMY_HOUSING_DATA"
           /\ calls[r] = <<"storage_read", "groq">>

\* C7: the text sent to the speech API is the cleaned explanation (newlines
\* to spaces, stripped) when that has at most 5000 characters, and else its
\* first 5000 characters followed by three dots, 5003 characters in all.
C7_SpeechTextTruncated ==
    \A r \in Requests :
        submitted_text[r] # Null
        => LET cleaned == Strip(Replace(recommendation_result[r].explanation_text, "\n", " "))
           IN  IF Len(cleaned) > 5000
               THEN /\ Len(submitted_text[r]) = 5003
                    /\ SubSeq(submitted_text[r], 1, 5000) = SubSeq(cleaned, 1, 5000)
                    /\ SubSeq(submitted_text[r], 5001, 5003) = <<".", ".", ".">>
               ELSE submitted_text[r] = cleaned

\* an explanation longer than the limit, holding a newline, was submitted
C7_Witness ==
    \E r \in Requests :
        /\ submitted_text[r] # Null
        /\ Len(recommendation_result[r].explanation_text) > 5000
        /\ \E i \in 1..50 : recommendation_result[r].explanation_text[i] = "\n"
        /\ Len(submitted_text[r]) = 5003

\* the model query of request r succeeded
QuerySucceeded(r) == Got(r) /\ ~recommendation_result[r].is_error

\* C8: a request whose model query succeeded ends with status 200 and the
\* model's data and explanation; audio_response is null exactly when the
\* speech step gave no result, response_id is null exactly when the insert
\* failed or returned no row, and after a speech failure the insert is still
\* attempted, with a null audio_path.
C8_GracefulDegradation ==
    \A r \in Requests :
        (pc[r] = "done" /\ QuerySucceeded(r))
        => /\ status[r] = 200
           /\ ~payload[r].is_error
           /\ payload[r].text_response = recommendation_result[r].recommendation_data
           /\ payload[r].explanation_text = recommendation_result[r].explanation_text
           /\ (payload[r].audio_response = Null
                <=> audio_outcome[r] \in {"no_key", "request_error", "write_error"})
           /\ (payload[r].response_id = Null <=> insert_outcome[r] \in {"error", "no_row"})
           /\ insert_outcome[r] # "none"
           /\ calls[r][Len(calls[r])] = "storage_insert"
           /\ response_data[r].explanation_text = recommendation_result[r].explanation_text
           /\ (audio_outcome[r] # "ok" => response_data[r].audio_path = Null)

\* the speech request failed, the insert raised, and the answer was 200
C8_Witness ==
    \E r \in Requests :
        /\ pc[r] = "done" /\ QuerySucceeded(r)
        /\ audio_outcome[r] = "request_error"
        /\ insert_outcome[r] = "error"
        /\ status[r] = 200

\* the orders in which one request makes its outbound calls
CallOrders ==
    { <<>>,
      <<"storage_read">>,
      <<"storage_read", "groq">>,
      <<"storage_read", "groq", "speech">>,
      <<"storage_read", "groq", "speech", "file_write">>,
      <<"storage_read", "groq", "storage_insert">>,
      <<"storage_read", "groq", "speech", "storage_insert">>,
      <<"storage_read", "groq", "speech", "file_write", "storage_insert">> }

AfterQueryCalls == {"speech", "file_write", "storage_insert"}

\* C9: a request makes its calls in the order model query, speech, insert,
\* each at most once; speech and insert only after query_groq succeeded;
\* and when query_groq returns an error the handler answers that error with
\* status 500 at once, with no speech call, audio file or responses row.
C9_LinearOrder ==
    \A r \in Requests :
        /\ calls[r] \in CallOrders
        /\ (\E i \in 1..Len(calls[r]) : calls[r][i] \in AfterQueryCalls) => QuerySucceeded(r)
        /\ recommendation_result[r].is_error
           => /\ pc[r] = "done"
              /\ status[r] = 500
              /\ payload[r].is_error
              /\ payload[r].error = recommendation_result[r].error
              /\ payload[r].raw_response = recommendation_result[r].raw_response
              /\ \A i \in 1..Len(calls[r]) : calls[r][i] \notin AfterQueryCalls
              /\ submitted_text[r] = Null
              /\ insert_outcome[r] = "none"
              /\ responses = <<>>
              /\ NoAudioFile

\* the model could not be reached and the request was answered 500
C9_Witness ==
    \E r \in Requests :
        /\ recommendation_result[r].is_error
        /\ recommendation_result[r].error = "Error communicating with language model API"
        /\ calls[r] = <<"storage_read", "groq">>
        /\ pc[r] = "done" /\ status[r] = 500

\* C10: any two successful speech steps wrote different files, and the file
\* each audio_path names holds the audio of its own request.
C10_UniqueAudioFiles ==
    \A r1 \in Requests : \A r2 \in Requests :
        (r1 # r2 /\ ~audio_result[r1].none /\ ~audio_result[r2].none)
        => /\ audio_result[r1].audio_path # audio_result[r2].audio_path
           /\ audio_files[audio_result[r1].audio_path[2]]
                = SpeechContent(r1, submitted_text[r1])

\* the position where the interior of the parsed block starts: after the
\* first marker labeled json if there is one, else after the first marker
ParsedBlockStart(m) ==
    IF HasOcc(m, JsonFence) THEN FirstOcc(m, JsonFence) + Len(JsonFence)
    ELSE FirstOcc(m, Fence) + Len(Fence)

\* the parsed block is closed by a marker
ParsedBlockClosed(m) == HasOcc(SubSeq(m, ParsedBlockStart(m), Len(m)), Fence)

\* the text that follows the marker closing the parsed block, up to the next
\* marker (to the end of the reply if there is none)
AfterParsedBlock(m) ==
    LET rest == SubSeq(m, ParsedBlockStart(m), Len(m))
    IN  InteriorFrom(m, ParsedBlockStart(m) + FirstOcc(rest, Fence) - 1 + Len(Fence))

\* the number of fence markers of the reply
FenceMarkers(m) == Len(Split(m, Fence)) - 1

\* C11: when query_groq succeeds through a fenced block, explanation_text
\* is the stripped text that follows the block the JSON was parsed from,
\* wherever that block stands in the reply, and it is empty when the reply
\* has fewer than two fence markers.
C11_FenceExplanationFollowsBlock ==
    \A r \in Requests :
        (Got(r) /\ ~BraceSpanExists(model_response[r])
                /\ ~recommendation_result[r].is_error)
        => IF FenceMarkers(model_response[r]) < 2
           THEN recommendation_result[r].explanation_text = <<>>
           ELSE ParsedBlockClosed(model_response[r])
                => recommendation_result[r].explanation_text
                     = Strip(AfterParsedBlock(model_response[r]))

====
